---- MODULE Spec2Model ----
(***************************************************************************)
(* Model of Source/Engine/Platform/GDK/GDKPlatform.cpp: the suspend/resume *)
(* handshake (WndProc + the app-state-change lambda), the manual-dispatch  *)
(* task queue drained by GDKPlatform::Tick, and the Users registry that    *)
(* the queue's completion callbacks mutate.                                *)
(*                                                                         *)
(* Threads: "main" (Init, OnMainWindowCreated, Tick, WndProc, Exit),       *)
(* "notifier" (the OS thread running the app-state-change lambda) and      *)
(* "worker" (task-queue thread-pool threads that produce completions).     *)
(***************************************************************************)
EXTENDS Integers, Sequences, FiniteSets, TLC

\* ---- bounds of the model ----
\* Inputs the environment delivers in one run: completions submitted by
\* background threads plus app-state-change notifications sent by the OS.
MaxEvents == 3

LocalIds == {1, 2}      \* non-null XUserLocalId values
NullLocalId == 0        \* XUserNullUserLocalId: "no user" side of an association change
Devices == {1}          \* APP_LOCAL_DEVICE_ID values

VARIABLES
    phase,              \* "start" | "inited" | "running" | "initFailed" | "exited"
    windowCreated,      \* OnMainWindowCreated has run
    plmRegistered,      \* RegisterAppStateChangeNotification succeeded (Plm valid)
    initOutcome,        \* "none" before GDKPlatform::Init, then what happened in it
    eventsCreated,      \* both CreateEventEx calls of OnMainWindowCreated succeeded
    IsSuspended,        \* the anonymous-namespace flag
    PlmSuspendComplete, \* auto-reset event: TRUE = signaled
    PlmSignalResume,    \* auto-reset event: TRUE = signaled
    msgQueue,           \* native message queue of the main thread
    mainPc,             \* position of the main thread
    notifierPc,         \* position of the OS-notifying thread
    osNext,             \* TRUE: the next OS notification is quiescing=true
    Users,              \* Array<User, FixedAllocation<8>>
    closeLog,           \* sequence of handles passed to XUserCloseHandle
    openedHandles,      \* handles obtained from a successful XUserAddResult
    port,               \* completion port of TaskQueue (manual dispatch)
    produced,           \* completions produced so far (also the last id issued)
    appliedLog,         \* ids of completions whose callback ran, in order
    tickSnapshot,       \* ids queued when the current Tick began its drain (<<>> outside Tick)
    tickApplied,        \* ids applied by the current Tick (<<>> outside Tick)
    lastOp,             \* last completion applied, the LocalIds registered before it
                        \* and, for a sign-in, the registry before it
    accessLog,          \* <<thread, inTick>> of every registry mutation / lifecycle event
    suspendStarted,     \* quiescing=true callbacks entered
    suspendReleased,    \* quiescing=true callbacks returned
    resumeSet,          \* quiescing=false callbacks (SetEvent(PlmSignalResume))
    onSuspendCount,     \* invocations of GDKPlatform::OnSuspend
    onResumeCount,      \* invocations of GDKPlatform::OnResume
    mainReleased        \* returns of WaitForSingleObject(PlmSignalResume)

vars == <<phase, windowCreated, plmRegistered, initOutcome, eventsCreated,
          openedHandles, IsSuspended, PlmSuspendComplete,
          PlmSignalResume, msgQueue, mainPc, notifierPc, osNext, Users, closeLog,
          port, produced, appliedLog, tickSnapshot, tickApplied, lastOp, accessLog,
          suspendStarted, suspendReleased, resumeSet, onSuspendCount,
          onResumeCount, mainReleased>>

lifecycleVars == <<phase, windowCreated, plmRegistered, initOutcome, eventsCreated>>
handshakeVars == <<IsSuspended, PlmSuspendComplete, PlmSignalResume, msgQueue,
                   notifierPc, osNext, suspendStarted, suspendReleased, resumeSet,
                   onSuspendCount, onResumeCount, mainReleased>>
registryVars == <<Users, closeLog, openedHandles, lastOp>>
queueVars == <<port, produced, appliedLog, tickSnapshot, tickApplied>>

\* ---- helpers ----
Range(s) == {s[i] : i \in 1..Len(s)}

RECURSIVE IndexOf(_, _, _)
IndexOf(s, x, i) ==
    IF i > Len(s) THEN 0
    ELSE IF s[i] = x THEN i
    ELSE IndexOf(s, x, i + 1)

IdsOf(q) == [i \in 1..Len(q) |-> q[i].id]

LocalIdsIn(users) == {users[i].LocalId : i \in 1..Len(users)}

IsPrefix(s, t) == Len(s) <= Len(t) /\ \A i \in 1..Len(s) : s[i] = t[i]

\* ---- completions handed from background threads to the completion port ----
Completion(id, kind, ok, event, localId, oldUser, newUser, deviceId) ==
    [id |-> id, kind |-> kind, ok |-> ok, event |-> event, localId |-> localId,
     oldUser |-> oldUser, newUser |-> newUser, deviceId |-> deviceId]

NoCompletion == Completion(0, "None", FALSE, "None", 0, 0, 0, 0)

\* Results of XUserAddAsync: XUserAddResult succeeds (ok) with a fresh handle
\* whose XUserGetLocalId is localId, or fails.
AddUserInputs(id) ==
    {Completion(id, "AddUser", TRUE, "None", l, 0, 0, 0) : l \in LocalIds}
        \cup {Completion(id, "AddUser", FALSE, "None", 0, 0, 0, 0)}

\* XUserChangeEvent notifications.
UserChangeInputs(id) ==
    {Completion(id, "UserChange", TRUE, e, l, 0, 0, 0) :
        e \in {"SignedInAgain", "SignedOut"}, l \in LocalIds}

\* XUserDeviceAssociationChange notifications: the device moves from oldUser
\* to a different newUser; either side may be the null user.
DeviceChangeInputs(id) ==
    {c \in {Completion(id, "DeviceChange", TRUE, "None", 0, o, n, d) :
                o \in LocalIds \cup {NullLocalId}, n \in LocalIds \cup {NullLocalId},
                d \in Devices} : c.oldUser # c.newUser}

\* The XUserHandle a successful XUserAddResult yields: a fresh handle per call.
HandleOf(c) == c.id

\* ---- Array<T> operations used by the registry ----
ArrayAdd(a, x) == Append(a, x)

\* Capacity of Users: Array<User, FixedAllocation<8>>.
UsersCapacityLarger == 8 + 1

UsersCapacity == 8

\* Users.AddOne() followed by Set on the new slot: an add past the fixed
\* capacity is silently ignored.
UsersAddOne(users, u) ==
    IF Len(users) < UsersCapacity THEN Append(users, u) ELSE users

\* RemoveAt(i): the element at i is gone; either the order of the rest is kept
\* or the last element is moved into slot i.
ArrayRemoveAt(a, i, keepOrder) ==
    IF keepOrder \/ i = Len(a)
    THEN [k \in 1..(Len(a) - 1) |-> IF k < i THEN a[k] ELSE a[k + 1]]
    ELSE [k \in 1..(Len(a) - 1) |-> IF k = i THEN a[Len(a)] ELSE a[k]]

\* Remove(item): removes the first occurrence, if any.
ArrayRemove(a, x, keepOrder) ==
    IF IndexOf(a, x, 1) = 0 THEN a ELSE ArrayRemoveAt(a, IndexOf(a, x, 1), keepOrder)

\* ---- struct User ----
UserSet(userHandle, localId) ==
    [UserHandle |-> userHandle, LocalId |-> localId, AssociatedDevices |-> <<>>]

\* FindUser: index of the first entry with the given LocalId, 0 for nullptr.
RECURSIVE FindUserFrom(_, _, _)
FindUserFrom(users, id, i) ==
    IF i > Len(users) THEN 0
    ELSE IF users[i].LocalId = id THEN i
    ELSE FindUserFrom(users, id, i + 1)

FindUser(users, id) == FindUserFrom(users, id, 1)

\* ---- completion callbacks: each yields [users, closed] ----
AddUserCompleteNoFind(users, c) ==
    IF c.ok
    THEN [users |-> ArrayAdd(users, UserSet(HandleOf(c), c.localId)), closed |-> <<>>]
    ELSE [users |-> users, closed |-> <<>>]

\* hr is not tested: the entry is added from whatever userHandle holds.
AddUserCompleteIgnoresHr(users, c) ==
    IF FindUser(users, c.localId) = 0
    THEN [users |-> UsersAddOne(users, UserSet(HandleOf(c), c.localId)), closed |-> <<>>]
    ELSE [users |-> users, closed |-> <<>>]

\* Set is called on the entry FindUser returned instead of only on a new one.
AddUserCompleteResets(users, c) ==
    IF c.ok
    THEN IF FindUser(users, c.localId) = 0
         THEN [users |-> UsersAddOne(users, UserSet(HandleOf(c), c.localId)),
               closed |-> <<>>]
         ELSE [users |-> [users EXCEPT ![FindUser(users, c.localId)] =
                              UserSet(HandleOf(c), c.localId)],
               closed |-> <<>>]
    ELSE [users |-> users, closed |-> <<>>]

AddUserComplete(users, c) ==
    IF c.ok /\ FindUser(users, c.localId) = 0
    THEN [users |-> UsersAddOne(users, UserSet(HandleOf(c), c.localId)), closed |-> <<>>]
    ELSE [users |-> users, closed |-> <<>>]

UserChangeEventCallbackNoMatchTest(users, c, keepOrder) ==
    IF c.event = "SignedOut" /\ Len(users) > 0
    THEN LET i == IF FindUser(users, c.localId) = 0 THEN Len(users)
                  ELSE FindUser(users, c.localId)
         IN [users |-> ArrayRemoveAt(users, i, keepOrder),
             closed |-> <<users[i].UserHandle>>]
    ELSE [users |-> users, closed |-> <<>>]

UserChangeEventCallbackNoRemove(users, c, keepOrder) ==
    IF c.event = "SignedOut" /\ FindUser(users, c.localId) # 0
    THEN LET i == FindUser(users, c.localId)
         IN [users |-> [users EXCEPT ![i].AssociatedDevices = <<>>],
             closed |-> <<users[i].UserHandle>>]
    ELSE [users |-> users, closed |-> <<>>]

\* RemoveAt before Unset: the handle closed is the one now in slot i, if any.
UserChangeEventCallbackRemoveFirst(users, c, keepOrder) ==
    IF c.event = "SignedOut" /\ FindUser(users, c.localId) # 0
    THEN LET i == FindUser(users, c.localId)
             rest == ArrayRemoveAt(users, i, keepOrder)
         IN [users |-> rest,
             closed |-> IF i <= Len(rest) THEN <<rest[i].UserHandle>> ELSE <<>>]
    ELSE [users |-> users, closed |-> <<>>]

UserChangeEventCallback(users, c, keepOrder) ==
    IF c.event = "SignedOut" /\ FindUser(users, c.localId) # 0
    THEN LET i == FindUser(users, c.localId)
         IN [users |-> ArrayRemoveAt(users, i, keepOrder),
             closed |-> <<users[i].UserHandle>>]
    ELSE [users |-> users, closed |-> <<>>]

DetachDevice(users, id, d, keepOrder) ==
    IF FindUser(users, id) = 0 THEN users
    ELSE [users EXCEPT ![FindUser(users, id)].AssociatedDevices =
              ArrayRemove(@, d, keepOrder)]

AttachDevice(users, id, d) ==
    IF FindUser(users, id) = 0 THEN users
    ELSE [users EXCEPT ![FindUser(users, id)].AssociatedDevices = ArrayAdd(@, d)]

UserDeviceAssociationChangedCallbackAddsUser(users, c, keepOrder) ==
    LET detached == DetachDevice(users, c.oldUser, c.deviceId, keepOrder)
    IN [users |-> IF FindUser(detached, c.newUser) = 0
                  THEN ArrayAdd(detached,
                           [UserHandle |-> 0, LocalId |-> c.newUser,
                            AssociatedDevices |-> <<c.deviceId>>])
                  ELSE AttachDevice(detached, c.newUser, c.deviceId),
        closed |-> <<>>]

UserDeviceAssociationChangedCallback(users, c, keepOrder) ==
    [users |-> AttachDevice(DetachDevice(users, c.oldUser, c.deviceId, keepOrder),
                            c.newUser, c.deviceId),
     closed |-> <<>>]

\* The callback the completion was queued with.
Callback(users, c, keepOrder) ==
    CASE c.kind = "AddUser" -> AddUserComplete(users, c)
      [] c.kind = "UserChange" -> UserChangeEventCallback(users, c, keepOrder)
      [] c.kind = "DeviceChange" -> UserDeviceAssociationChangedCallback(users, c, keepOrder)

\* ---- GDKPlatform::GetHasFocus ----
GetHasFocusInverted == IsSuspended

GetHasFocus == ~IsSuspended

\* ---- initial state: the globals as statically initialised ----
Init ==
    /\ phase = "start"
    /\ windowCreated = FALSE
    /\ plmRegistered = FALSE
    /\ initOutcome = "none"
    /\ eventsCreated = FALSE
    /\ openedHandles = {}
    /\ IsSuspended = FALSE
    /\ PlmSuspendComplete = FALSE
    /\ PlmSignalResume = FALSE
    /\ msgQueue = <<>>
    /\ mainPc = "idle"
    /\ notifierPc = "idle"
    /\ osNext = "suspend"
    /\ Users = <<>>
    /\ closeLog = <<>>
    /\ port = <<>>
    /\ produced = 0
    /\ appliedLog = <<>>
    /\ tickSnapshot = <<>>
    /\ tickApplied = <<>>
    /\ lastOp = [c |-> NoCompletion, preIds |-> {}, pre |-> <<>>]
    /\ accessLog = {}
    /\ suspendStarted = 0
    /\ suspendReleased = 0
    /\ resumeSet = 0
    /\ onSuspendCount = 0
    /\ onResumeCount = 0
    /\ mainReleased = 0

\* Environment inputs delivered so far.
Delivered == produced + suspendStarted + resumeSet

Access(what, thread) == [what |-> what, thread |-> thread, inTick |-> mainPc # "idle"]

\* ---- GDKPlatform::Init ----
\* The value Init returns: true (failure) when Win32Platform::Init or
\* XTaskQueueCreate fails, false at the end of the function.
InitReturnIgnoresQueue(outcome) == outcome = "win32Failed"

InitReturn(outcome) == outcome # "ok"

\* When Init returns true the engine stops starting up; otherwise the queue
\* is open and both change callbacks are registered on it.
PlatformInit ==
    /\ phase = "start"
    /\ \E outcome \in {"win32Failed", "queueFailed", "ok"} :
           /\ initOutcome' = outcome
           /\ phase' = IF InitReturn(outcome) THEN "initFailed" ELSE "inited"
    /\ UNCHANGED <<windowCreated, plmRegistered, eventsCreated, mainPc, accessLog>>
    /\ UNCHANGED <<handshakeVars, registryVars, queueVars>>

\* ---- OnMainWindowCreated ----
\* The notification is registered when neither handle is null and
\* RegisterAppStateChangeNotification itself succeeds.
RegistersNotificationUnchecked(created, registered) == registered

RegistersNotification(created, registered) == created /\ registered

\* Both events are created auto-reset and non-signaled; the notification is
\* registered only if both were created, and registration itself may fail.
\* The engine creates its main window after Init and before the frame loop
\* starts calling Tick.
OnMainWindowCreated ==
    /\ phase = "inited"
    /\ mainPc = "idle"
    /\ ~windowCreated
    /\ windowCreated' = TRUE
    /\ phase' = "running"
    /\ \E created \in BOOLEAN, registered \in BOOLEAN :
           /\ eventsCreated' = created
           /\ plmRegistered' = RegistersNotification(created, registered)
    /\ UNCHANGED <<initOutcome, mainPc, accessLog>>
    /\ UNCHANGED <<handshakeVars, registryVars, queueVars>>

\* ---- GDKPlatform::Exit ----
\* Unregisters the callbacks and the notification and closes the queue handle
\* without dispatching what is still queued.  A handshake in flight at
\* shutdown is outside the supported behaviour, so Exit is taken only when
\* no notification callback is running and no wake-up is pending.
PlatformExit ==
    /\ phase = "running"
    /\ mainPc = "idle"
    /\ notifierPc = "idle"
    /\ msgQueue = <<>>
    /\ phase' = "exited"
    /\ UNCHANGED <<windowCreated, plmRegistered, initOutcome, eventsCreated,
                   mainPc, accessLog>>
    /\ UNCHANGED <<handshakeVars, registryVars, queueVars>>

\* ---- running a completion callback on a thread ----
Invoke(c, thread) ==
    /\ \E keepOrder \in BOOLEAN :
           LET r == Callback(Users, c, keepOrder)
           IN /\ Users' = r.users
              /\ closeLog' = closeLog \o r.closed
    /\ openedHandles' = IF c.kind = "AddUser" /\ c.ok
                        THEN openedHandles \cup {HandleOf(c)}
                        ELSE openedHandles
    /\ lastOp' = [c |-> c, preIds |-> LocalIdsIn(Users),
                  pre |-> IF c.kind = "AddUser" THEN Users ELSE <<>>]
    /\ appliedLog' = Append(appliedLog, c.id)
    /\ accessLog' = accessLog \cup {Access("registry", thread)}

\* ---- task queue: XTaskQueueCreate(ThreadPool, Manual) ----
\* Dispatch mode of the completion port.
CompletionDispatchModeThreadPool == "ThreadPool"

CompletionDispatchMode == "Manual"

\* A background thread finishes a unit of work and submits its completion
\* callback to the completion port: queued when the port is Manual, run on
\* the submitting thread-pool thread otherwise.
Submit(c) ==
    /\ phase \in {"inited", "running"}
    /\ Delivered < MaxEvents
    /\ produced' = produced + 1
    /\ IF CompletionDispatchMode = "Manual"
       THEN /\ port' = Append(port, c)
            /\ UNCHANGED <<registryVars, appliedLog, accessLog>>
       ELSE /\ Invoke(c, "worker")
            /\ UNCHANGED port
    /\ UNCHANGED <<tickSnapshot, tickApplied, mainPc>>
    /\ UNCHANGED <<lifecycleVars, handshakeVars>>

Worker_AddUser == \E c \in AddUserInputs(produced + 1) : Submit(c)

Worker_UserChange == \E c \in UserChangeInputs(produced + 1) : Submit(c)

Worker_DeviceChange == \E c \in DeviceChangeInputs(produced + 1) : Submit(c)

\* ---- GDKPlatform::Tick ----
\* Entry: GDKInput::Update, then the first evaluation of the drain loop.
Tick_Begin ==
    /\ phase = "running"
    /\ mainPc = "idle"
    /\ mainPc' = "drain"
    /\ tickSnapshot' = IdsOf(port)
    /\ tickApplied' = <<>>
    /\ UNCHANGED <<port, produced, appliedLog, accessLog>>
    /\ UNCHANGED <<lifecycleVars, handshakeVars, registryVars>>

\* XTaskQueueDispatch(TaskQueue, Completion, 0) returned true: it ran the
\* callback at the head of the completion port.
Tick_Dispatch ==
    /\ mainPc = "drain"
    /\ port # <<>>
    /\ Invoke(Head(port), "main")
    /\ port' = Tail(port)
    /\ tickApplied' = Append(tickApplied, Head(port).id)
    /\ UNCHANGED <<produced, tickSnapshot, mainPc>>
    /\ UNCHANGED <<lifecycleVars, handshakeVars>>

\* The drain loop ends when XTaskQueueDispatch returns false (port empty).
DrainEndsEarly(q) == TRUE

DrainEnds(q) == q = <<>>

Tick_DrainDone ==
    /\ mainPc = "drain"
    /\ DrainEnds(port)
    /\ mainPc' = "peek"
    /\ UNCHANGED <<accessLog>>
    /\ UNCHANGED <<lifecycleVars, handshakeVars, registryVars, queueVars>>

\* PeekMessage found nothing: Tick returns.
Tick_Return ==
    /\ mainPc = "peek"
    /\ msgQueue = <<>>
    /\ mainPc' = "idle"
    /\ tickSnapshot' = <<>>
    /\ tickApplied' = <<>>
    /\ UNCHANGED <<port, produced, appliedLog, accessLog>>
    /\ UNCHANGED <<lifecycleVars, handshakeVars, registryVars>>

\* PeekMessage(PM_REMOVE) + DispatchMessage: WndProc, case WM_USER, up to
\* IsSuspended = true.
Tick_DispatchMessage ==
    /\ mainPc = "peek"
    /\ msgQueue # <<>>
    /\ Head(msgQueue) = "WM_USER"
    /\ msgQueue' = Tail(msgQueue)
    /\ IsSuspended' = TRUE
    /\ mainPc' = "onSuspend"
    /\ UNCHANGED <<PlmSuspendComplete, PlmSignalResume, notifierPc, osNext,
                   suspendStarted, suspendReleased, resumeSet, onSuspendCount,
                   onResumeCount, mainReleased, accessLog>>
    /\ UNCHANGED <<lifecycleVars, registryVars, queueVars>>

\* ---- WndProc, case WM_USER ----
WndProc_OnSuspend ==
    /\ mainPc = "onSuspend"
    /\ onSuspendCount' = onSuspendCount + 1
    /\ accessLog' = accessLog \cup {Access("OnSuspend", "main")}
    /\ mainPc' = "setEvent"
    /\ UNCHANGED <<IsSuspended, PlmSuspendComplete, PlmSignalResume, msgQueue,
                   notifierPc, osNext, suspendStarted, suspendReleased, resumeSet,
                   onResumeCount, mainReleased>>
    /\ UNCHANGED <<lifecycleVars, registryVars, queueVars>>

\* SetEvent(PlmSuspendComplete)
WndProc_SetEvent ==
    /\ mainPc = "setEvent"
    /\ PlmSuspendComplete' = TRUE
    /\ mainPc' = "waitResume"
    /\ UNCHANGED <<IsSuspended, PlmSignalResume, msgQueue, notifierPc, osNext,
                   suspendStarted, suspendReleased, resumeSet, onSuspendCount,
                   onResumeCount, mainReleased, accessLog>>
    /\ UNCHANGED <<lifecycleVars, registryVars, queueVars>>

\* WaitForSingleObject(PlmSignalResume, INFINITE) on an auto-reset event:
\* returns once the event is signaled and consumes the signal.
WaitReturns(signaled) == signaled

WndProc_WaitResumeNoWait ==
    /\ mainPc = "waitResume"
    /\ PlmSignalResume' = FALSE
    /\ mainReleased' = mainReleased + 1
    /\ mainPc' = "clearSuspended"
    /\ UNCHANGED <<IsSuspended, PlmSuspendComplete, msgQueue, notifierPc, osNext,
                   suspendStarted, suspendReleased, resumeSet, onSuspendCount,
                   onResumeCount, accessLog>>
    /\ UNCHANGED <<lifecycleVars, registryVars, queueVars>>

WndProc_WaitResume ==
    /\ mainPc = "waitResume"
    /\ WaitReturns(PlmSignalResume)
    /\ PlmSignalResume' = FALSE
    /\ mainReleased' = mainReleased + 1
    /\ mainPc' = "clearSuspended"
    /\ UNCHANGED <<IsSuspended, PlmSuspendComplete, msgQueue, notifierPc, osNext,
                   suspendStarted, suspendReleased, resumeSet, onSuspendCount,
                   onResumeCount, accessLog>>
    /\ UNCHANGED <<lifecycleVars, registryVars, queueVars>>

WndProc_ClearSuspended ==
    /\ mainPc = "clearSuspended"
    /\ IsSuspended' = FALSE
    /\ mainPc' = "onResume"
    /\ UNCHANGED <<PlmSuspendComplete, PlmSignalResume, msgQueue, notifierPc,
                   osNext, suspendStarted, suspendReleased, resumeSet,
                   onSuspendCount, onResumeCount, mainReleased, accessLog>>
    /\ UNCHANGED <<lifecycleVars, registryVars, queueVars>>

\* OnResume, then DefWindowProc returns into the PeekMessage loop.
WndProc_OnResume ==
    /\ mainPc = "onResume"
    /\ onResumeCount' = onResumeCount + 1
    /\ accessLog' = accessLog \cup {Access("OnResume", "main")}
    /\ mainPc' = "peek"
    /\ UNCHANGED <<IsSuspended, PlmSuspendComplete, PlmSignalResume, msgQueue,
                   notifierPc, osNext, suspendStarted, suspendReleased, resumeSet,
                   onSuspendCount, mainReleased>>
    /\ UNCHANGED <<lifecycleVars, registryVars, queueVars>>

\* ---- the app-state-change notification lambda (OS-notifying thread) ----
\* The OS alternates quiesced=true / quiesced=false and delivers the next
\* notification once the previous callback has returned.
\* quiesced = true: ResetEvent(PlmSuspendComplete)
Notify_Quiesce ==
    /\ phase = "running"
    /\ plmRegistered
    /\ notifierPc = "idle"
    /\ osNext = "suspend"
    /\ Delivered < MaxEvents
    /\ suspendStarted' = suspendStarted + 1
    /\ PlmSuspendComplete' = FALSE
    /\ notifierPc' = "resetResume"
    /\ UNCHANGED <<IsSuspended, PlmSignalResume, msgQueue, osNext, suspendReleased,
                   resumeSet, onSuspendCount, onResumeCount, mainReleased>>
    /\ UNCHANGED <<lifecycleVars, registryVars, queueVars, mainPc, accessLog>>

\* ResetEvent(PlmSignalResume)
Notify_ResetResume ==
    /\ notifierPc = "resetResume"
    /\ PlmSignalResume' = FALSE
    /\ notifierPc' = "post"
    /\ UNCHANGED <<IsSuspended, PlmSuspendComplete, msgQueue, osNext,
                   suspendStarted, suspendReleased, resumeSet, onSuspendCount,
                   onResumeCount, mainReleased>>
    /\ UNCHANGED <<lifecycleVars, registryVars, queueVars, mainPc, accessLog>>

\* PostMessage(hWnd, WM_USER, 0, 0)
Notify_PostMessage ==
    /\ notifierPc = "post"
    /\ msgQueue' = Append(msgQueue, "WM_USER")
    /\ notifierPc' = "waitComplete"
    /\ UNCHANGED <<IsSuspended, PlmSuspendComplete, PlmSignalResume, osNext,
                   suspendStarted, suspendReleased, resumeSet, onSuspendCount,
                   onResumeCount, mainReleased>>
    /\ UNCHANGED <<lifecycleVars, registryVars, queueVars, mainPc, accessLog>>

Notify_WaitCompleteNoWait ==
    /\ notifierPc = "waitComplete"
    /\ PlmSuspendComplete' = FALSE
    /\ suspendReleased' = suspendReleased + 1
    /\ osNext' = "resume"
    /\ notifierPc' = "idle"
    /\ UNCHANGED <<IsSuspended, PlmSignalResume, msgQueue, suspendStarted,
                   resumeSet, onSuspendCount, onResumeCount, mainReleased>>
    /\ UNCHANGED <<lifecycleVars, registryVars, queueVars, mainPc, accessLog>>

\* WaitForSingleObject(PlmSuspendComplete, INFINITE), then the callback returns.
Notify_WaitComplete ==
    /\ notifierPc = "waitComplete"
    /\ WaitReturns(PlmSuspendComplete)
    /\ PlmSuspendComplete' = FALSE
    /\ suspendReleased' = suspendReleased + 1
    /\ osNext' = "resume"
    /\ notifierPc' = "idle"
    /\ UNCHANGED <<IsSuspended, PlmSignalResume, msgQueue, suspendStarted,
                   resumeSet, onSuspendCount, onResumeCount, mainReleased>>
    /\ UNCHANGED <<lifecycleVars, registryVars, queueVars, mainPc, accessLog>>

\* quiesced = false: SetEvent(PlmSignalResume)
Notify_Resume ==
    /\ phase = "running"
    /\ plmRegistered
    /\ notifierPc = "idle"
    /\ osNext = "resume"
    /\ Delivered < MaxEvents
    /\ PlmSignalResume' = TRUE
    /\ resumeSet' = resumeSet + 1
    /\ osNext' = "suspend"
    /\ UNCHANGED <<IsSuspended, PlmSuspendComplete, msgQueue, notifierPc,
                   suspendStarted, suspendReleased, onSuspendCount, onResumeCount,
                   mainReleased>>
    /\ UNCHANGED <<lifecycleVars, registryVars, queueVars, mainPc, accessLog>>

Next ==
    \/ PlatformInit
    \/ OnMainWindowCreated
    \/ PlatformExit
    \/ Worker_AddUser
    \/ Worker_UserChange
    \/ Worker_DeviceChange
    \/ Tick_Begin
    \/ Tick_Dispatch
    \/ Tick_DrainDone
    \/ Tick_Return
    \/ Tick_DispatchMessage
    \/ WndProc_OnSuspend
    \/ WndProc_SetEvent
    \/ WndProc_WaitResume
    \/ WndProc_ClearSuspended
    \/ WndProc_OnResume
    \/ Notify_Quiesce
    \/ Notify_ResetResume
    \/ Notify_PostMessage
    \/ Notify_WaitComplete
    \/ Notify_Resume

Spec == Init /\ [][Next]_vars

\* ---- the registry near its capacity ----
\* The program after UsersCapacity - 1 distinct users signed in during
\* earlier Ticks (handles 101, 102, ...), main thread between two Ticks, no
\* lifecycle notification registered; the history variables start afresh.
CapacityInit ==
    /\ phase = "running"
    /\ windowCreated = TRUE
    /\ plmRegistered = FALSE
    /\ initOutcome = "ok"
    /\ eventsCreated = FALSE
    /\ openedHandles = {100 + i : i \in 1..(UsersCapacity - 1)}
    /\ IsSuspended = FALSE
    /\ PlmSuspendComplete = FALSE
    /\ PlmSignalResume = FALSE
    /\ msgQueue = <<>>
    /\ mainPc = "idle"
    /\ notifierPc = "idle"
    /\ osNext = "suspend"
    /\ Users = [i \in 1..(UsersCapacity - 1) |-> UserSet(100 + i, i)]
    /\ closeLog = <<>>
    /\ port = <<>>
    /\ produced = 0
    /\ appliedLog = <<>>
    /\ tickSnapshot = <<>>
    /\ tickApplied = <<>>
    /\ lastOp = [c |-> NoCompletion, preIds |-> {}, pre |-> <<>>]
    /\ accessLog = {}
    /\ suspendStarted = 0
    /\ suspendReleased = 0
    /\ resumeSet = 0
    /\ onSuspendCount = 0
    /\ onResumeCount = 0
    /\ mainReleased = 0

\* Sign-in completions for the users already registered and for two more.
Worker_AddUserNearCapacity ==
    \E l \in 1..(UsersCapacity + 1) :
        Submit(Completion(produced + 1, "AddUser", TRUE, "None", l, 0, 0, 0))

CapacityNext ==
    \/ Worker_AddUserNearCapacity
    \/ Worker_UserChange
    \/ Tick_Begin
    \/ Tick_Dispatch
    \/ Tick_DrainDone
    \/ Tick_Return

CapacitySpec == CapacityInit /\ [][CapacityNext]_vars

\* ======================= properties =======================

\* The step runs the callback of completion c at the head of the port.
Applies(c) ==
    /\ port # <<>>
    /\ Head(port) = c
    /\ appliedLog' = Append(appliedLog, c.id)

AppliesHead(kind) == port # <<>> /\ Head(port).kind = kind /\ Applies(Head(port))

\* C1: for every quiescing=true notification the notifying thread returns
\* from the callback only after the main thread took the WM_USER wake-up out
\* of the message queue and invoked OnSuspend; OnSuspend runs once per
\* notification and never for a notification whose thread was already released.
SuspendHandshake ==
    /\ suspendReleased <= onSuspendCount
    /\ onSuspendCount <= suspendStarted
    /\ (notifierPc = "idle" => onSuspendCount = suspendStarted /\ msgQueue = <<>>)
    /\ (mainPc = "onSuspend" => suspendReleased = onSuspendCount)

SuspendHandshakeWitness ==
    /\ suspendReleased = 1
    /\ onSuspendCount = 1
    /\ notifierPc = "idle"

\* C2: the main thread parked on PlmSignalResume is released only by a
\* quiescing=false notification of its own cycle, and OnResume runs once per
\* cycle, after that release.
ResumeHandshake ==
    /\ mainReleased <= resumeSet
    /\ onResumeCount <= mainReleased
    /\ mainReleased <= onSuspendCount
    /\ onSuspendCount <= onResumeCount + 1
    /\ (mainPc \in {"idle", "drain", "peek"} =>
            onResumeCount = onSuspendCount /\ mainReleased = onSuspendCount)
    /\ (mainPc \in {"clearSuspended", "onResume"} => mainReleased = onResumeCount + 1)
    /\ (mainPc \in {"setEvent", "waitResume"} => mainReleased = onSuspendCount - 1)

ResumeHandshakeWitness ==
    /\ onResumeCount = 1
    /\ mainReleased = 1
    /\ resumeSet = 1

\* C3: no state has the main thread parked on PlmSignalResume and the
\* notifying thread parked on PlmSuspendComplete with neither event signaled
\* (each is the only thread that could signal the other's event).
NoLostResumeWakeup ==
    ~(/\ mainPc = "waitResume"
      /\ notifierPc = "waitComplete"
      /\ ~PlmSuspendComplete
      /\ ~PlmSignalResume)

\* C4: no two entries of Users have the same LocalId.
UniqueLocalIds ==
    \A i, j \in 1..Len(Users) : i # j => Users[i].LocalId # Users[j].LocalId

\* A successful sign-in for an already registered LocalId has been applied.
UniqueLocalIdsWitness ==
    /\ lastOp.c.kind = "AddUser"
    /\ lastOp.c.ok
    /\ lastOp.c.localId \in lastOp.preIds
    /\ Len(Users) = 2

\* C5: a Tick applies the completions that were queued when its drain began,
\* in queue order, and all of them before it takes a message out of the
\* native message queue.
TickDrainsFirst ==
    /\ \A i \in 1..Len(tickApplied) :
           i <= Len(tickSnapshot) => tickApplied[i] = tickSnapshot[i]
    /\ \A i \in 1..Len(tickSnapshot) : i > 1 => tickSnapshot[i] > tickSnapshot[i - 1]
    /\ (mainPc \notin {"idle", "drain"} => IsPrefix(tickSnapshot, tickApplied))

\* The Tick drained two queued completions and then dispatched WM_USER.
TickDrainsFirstWitness ==
    /\ mainPc = "onSuspend"
    /\ Len(tickSnapshot) = 2
    /\ tickApplied = tickSnapshot

\* C6: every completion submitted to the queue is applied exactly once: never
\* twice, and none is left unapplied when Exit has closed the queue.
EveryCompletionAppliedOnce ==
    /\ \A i, j \in 1..Len(appliedLog) : i # j => appliedLog[i] # appliedLog[j]
    /\ (phase = "exited" => \A id \in 1..produced : id \in Range(appliedLog))

\* C7: every registry access by a completion callback and every OnSuspend /
\* OnResume invocation is made by the main thread inside Tick.
MainThreadOnly ==
    \A a \in accessLog : a.thread = "main" /\ a.inTick

MainThreadOnlyWitness ==
    /\ \E a \in accessLog : a.what = "registry"
    /\ \E a \in accessLog : a.what = "OnSuspend"
    /\ \E a \in accessLog : a.what = "OnResume"
    /\ Users # <<>>

\* C8: applying a SignedOut notification whose localId matches no entry
\* leaves the registry unchanged and releases no handle.
SignOutMissIsNoOp ==
    [][(/\ AppliesHead("UserChange")
        /\ Head(port).event = "SignedOut"
        /\ Head(port).localId \notin LocalIdsIn(Users))
       => (Users' = Users /\ closeLog' = closeLog)]_vars

\* A SignedOut for an unregistered LocalId was applied to a non-empty registry.
SignOutMissWitness ==
    /\ lastOp.c.kind = "UserChange"
    /\ lastOp.c.event = "SignedOut"
    /\ lastOp.c.localId \notin lastOp.preIds
    /\ lastOp.preIds # {}

\* C9: a device-association change never changes the number of sessions or
\* their LocalIds (it creates no session), and when neither oldUser nor
\* newUser is registered it leaves the registry unchanged.
DeviceChangeKeepsSessions ==
    [][AppliesHead("DeviceChange")
       => (/\ Len(Users') = Len(Users)
           /\ \A i \in 1..Len(Users) :
                  /\ Users'[i].LocalId = Users[i].LocalId
                  /\ Users'[i].UserHandle = Users[i].UserHandle
           /\ closeLog' = closeLog
           /\ ((/\ Head(port).oldUser \notin LocalIdsIn(Users)
                /\ Head(port).newUser \notin LocalIdsIn(Users))
               => Users' = Users))]_vars

\* A change between two unregistered users was applied to a non-empty registry.
DeviceChangeKeepsSessionsWitness ==
    /\ lastOp.c.kind = "DeviceChange"
    /\ lastOp.c.oldUser \notin lastOp.preIds
    /\ lastOp.c.newUser \notin lastOp.preIds
    /\ lastOp.c.newUser # NullLocalId
    /\ lastOp.preIds # {}

\* The entries of users whose LocalId is id.
EntriesOf(users, id) == {i \in 1..Len(users) : users[i].LocalId = id}

\* The last completion applied was a successful sign-in for a LocalId that
\* was not registered.
LastWasNewSignIn(id) ==
    /\ lastOp.c.kind = "AddUser"
    /\ lastOp.c.ok
    /\ lastOp.c.localId = id
    /\ id \notin lastOp.preIds

\* C10: a successful sign-in for an unregistered LocalId L yields exactly one
\* entry for L, with no devices, next to the sessions held before; a SignedOut
\* for L applied right after it yields the sessions held before the sign-in.
SignInThenSignOut ==
    [][/\ ((/\ AppliesHead("AddUser")
            /\ Head(port).ok
            /\ Head(port).localId \notin LocalIdsIn(Users))
           => (/\ Cardinality(EntriesOf(Users', Head(port).localId)) = 1
               /\ \A i \in EntriesOf(Users', Head(port).localId) :
                      Users'[i].AssociatedDevices = <<>>
               /\ Len(Users') = Len(Users) + 1
               /\ Range(Users) \subseteq Range(Users')))
       /\ ((/\ AppliesHead("UserChange")
            /\ Head(port).event = "SignedOut"
            /\ LastWasNewSignIn(Head(port).localId))
           => (/\ Len(Users') = Len(lastOp.pre)
               /\ Range(Users') = Range(lastOp.pre)))]_vars

\* Sign-in then SignedOut of the same LocalId were applied back to back while
\* another session was registered: the entry closed is the one the preceding
\* completion created.
SignInThenSignOutWitness ==
    /\ lastOp.c.kind = "UserChange"
    /\ lastOp.c.event = "SignedOut"
    /\ lastOp.c.localId \in lastOp.preIds
    /\ closeLog = <<lastOp.c.id - 1>>
    /\ Len(Users) = 1

SignalFailureDisablesLifecycle ==
    (windowCreated /\ ~eventsCreated)
        => (/\ ~plmRegistered
            /\ suspendStarted = 0
            /\ resumeSet = 0
            /\ onSuspendCount = 0
            /\ onResumeCount = 0
            /\ ~IsSuspended
            /\ msgQueue = <<>>
            /\ notifierPc = "idle"
            /\ mainPc \in {"idle", "drain", "peek"})

\* Event creation failed and the program went on to apply completions in Ticks.
SignalFailureDisablesLifecycleWitness ==
    /\ windowCreated
    /\ ~eventsCreated
    /\ Len(appliedLog) >= 2
    /\ mainPc = "peek"

\* C13: a sign-in completion whose XUserAddResult fails leaves the registry
\* unchanged and the drain goes on: the drain loop is left only when the
\* port is empty.
FailedSignInIsSkipped ==
    [][/\ ((AppliesHead("AddUser") /\ ~Head(port).ok)
           => (/\ Users' = Users
               /\ closeLog' = closeLog
               /\ mainPc' = "drain"
               /\ port' = Tail(port)))
       /\ ((mainPc = "drain" /\ mainPc' # "drain") => port = <<>>)]_vars

\* A failed sign-in was applied while a completion queued behind it, in the
\* same Tick's snapshot, is next in the drain.
FailedSignInIsSkippedWitness ==
    /\ lastOp.c.kind = "AddUser"
    /\ ~lastOp.c.ok
    /\ mainPc = "drain"
    /\ port # <<>>
    /\ tickApplied # <<>>
    /\ tickApplied[Len(tickApplied)] = lastOp.c.id
    /\ \E i \in 1..Len(tickSnapshot) : tickSnapshot[i] = port[1].id

FocusFollowsHandshake ==
    /\ (mainPc \in {"onSuspend", "setEvent", "waitResume"} => ~GetHasFocus)
    /\ (onSuspendCount > mainReleased => ~GetHasFocus)
    /\ (mainPc = "onResume" => GetHasFocus)

FocusFollowsHandshakeWitness ==
    /\ mainPc = "onResume"
    /\ onSuspendCount = 1
    /\ mainReleased = 1
    /\ GetHasFocus

\* The first entry of users with the given LocalId.
FirstEntryOf(users, id) ==
    CHOOSE i \in EntriesOf(users, id) : \A j \in EntriesOf(users, id) : i <= j

\* C16: a SignedOut that matches an entry closes that entry's handle, which
\* was not closed before, and removes that entry and no other.
SignOutClosesMatchedHandle ==
    [][(/\ AppliesHead("UserChange")
        /\ Head(port).event = "SignedOut"
        /\ Head(port).localId \in LocalIdsIn(Users))
       => LET i == FirstEntryOf(Users, Head(port).localId)
          IN /\ Users[i].UserHandle \notin Range(closeLog)
             /\ closeLog' = Append(closeLog, Users[i].UserHandle)
             /\ Len(Users') = Len(Users) - 1
             /\ Range(Users') = Range(Users) \ {Users[i]}]_vars

\* The first of two sessions was signed out: its handle is closed, the
\* later session remains.
SignOutClosesMatchedHandleWitness ==
    /\ lastOp.c.kind = "UserChange"
    /\ lastOp.c.event = "SignedOut"
    /\ lastOp.c.localId \in lastOp.preIds
    /\ Len(closeLog) = 1
    /\ Len(Users) = 1
    /\ Users[1].UserHandle > closeLog[1]

NoDuplicates(a) == \A i, j \in 1..Len(a) : i # j => a[i] # a[j]

\* C17: no device appears twice in one session's AssociatedDevices, so a
\* change between two registered users leaves the device absent from
\* oldUser's devices and present in newUser's.
DevicesAreSets ==
    [][/\ \A i \in 1..Len(Users') : NoDuplicates(Users'[i].AssociatedDevices)
       /\ ((/\ AppliesHead("DeviceChange")
            /\ Head(port).oldUser \in LocalIdsIn(Users)
            /\ Head(port).newUser \in LocalIdsIn(Users))
           => \A i \in 1..Len(Users') :
                  /\ Users'[i].LocalId = Head(port).oldUser
                         => Head(port).deviceId \notin Range(Users'[i].AssociatedDevices)
                  /\ Users'[i].LocalId = Head(port).newUser
                         => Head(port).deviceId \in Range(Users'[i].AssociatedDevices))]_vars

\* C18: a successful sign-in for a LocalId that is already registered leaves
\* the registry unchanged.
DuplicateSignInIsNoOp ==
    [][(/\ AppliesHead("AddUser")
        /\ Head(port).ok
        /\ Head(port).localId \in LocalIdsIn(Users))
       => (Users' = Users /\ closeLog' = closeLog)]_vars

\* A duplicate sign-in was applied for a session that has a device.
DuplicateSignInIsNoOpWitness ==
    /\ lastOp.c.kind = "AddUser"
    /\ lastOp.c.ok
    /\ lastOp.c.localId \in lastOp.preIds
    /\ \E i \in 1..Len(Users) :
           /\ Users[i].LocalId = lastOp.c.localId
           /\ Users[i].AssociatedDevices # <<>>

TimesClosed(h) == Cardinality({i \in 1..Len(closeLog) : closeLog[i] = h})

Holders(h) == {i \in 1..Len(Users) : Users[i].UserHandle = h}

\* C19: every handle obtained from a successful sign-in is held by exactly
\* one entry and not closed, or held by none and closed exactly once.
NoHandleLeak ==
    \A h \in openedHandles :
        \/ (Cardinality(Holders(h)) = 1 /\ TimesClosed(h) = 0)
        \/ (Holders(h) = {} /\ TimesClosed(h) = 1)

====
